---- MODULE Spec2Model ----
(***************************************************************************)
(* State-machine model of the clustering dashboard client.                 *)
(*                                                                         *)
(* Modelled from the source:                                               *)
(*   - ClusteringDashboard (Klaster/client/.../ClusteringDashboard.tsx):   *)
(*     session list, active session, detail fetch effect, start job,       *)
(*     delete-and-recluster and the wiring of the delete buttons;          *)
(*   - ContactSheet (Klaster/client/.../ContactSheet.tsx): the cluster     *)
(*     card with its rename edit buffer, checkbox and split button;        *)
(*   - ContactSheetsGrid, SplitClusterModal and the API client functions   *)
(*     (handleResponse and the three exports);                             *)
(*   - App: fetchWithAuth, handleLogout, the token validation on page      *)
(*     load, login and logout.                                             *)
(* The dashboard handlers behind the card callbacks onRename,              *)
(* onToggleSelection, onInitiateSplit and the merge/split operations are   *)
(* not part of the source tree; they are modelled from the specification   *)
(* (sections 4.2, 4.3) and marked so in MODEL_MAP.json. The source has no  *)
(* poll timer, and so the model has none.                                  *)
(*                                                                         *)
(* One action is one run-to-completion step of the JavaScript event loop:  *)
(* an event handler, or the continuation of an await together with the     *)
(* renders and effects it triggers.                                        *)
(***************************************************************************)
EXTENDS Naturals, Integers, Sequences, FiniteSets, Bags, TLC

-----------------------------------------------------------------------------
(* Bounds of the model *)

MaxSessions == 3
MaxInFlight == 2

\* The session ids issued in the scenarios with adjustments.
MaxAdjustSessions == 2

-----------------------------------------------------------------------------
(* Values *)

\* JavaScript null for an id-typed state cell (currentSessionId, isDeletingId).
NoId == 0

SessionIds == 1..MaxSessions

Statuses ==
    {"STARTED", "PROCESSING", "SUCCESS", "FAILURE", "RECLUSTERED", "RECLUSTERING_FAILED"}

\* The statuses for which results are rendered and adjustments offered.
ResultStatuses == {"SUCCESS", "RECLUSTERED"}

\* Session absent from the local list.
Absent == "absent"

\* Strings are sequences of one-character strings; JavaScript null for a
\* name-typed value is a sequence no input can produce.
Null == <<"null">>

\* authToken === null, and localStorage without an authToken item.
NoToken == "null"

\* The access token the server issues.
Token == "token"

\* currentSessionDetails === null
\* currentUser: null, or the user of the token.
NoUser == "null"
User == "user"

NoDetails == [session_id |-> NoId, status |-> "null"]

\* error === null
NoError == "null"

\* x || ''   (null and '' are both falsy)
OrEmpty(x) == IF x = Null THEN <<>> ELSE x

RECURSIVE TrimLeft(_)
TrimLeft(s) ==
    IF s # <<>> /\ Head(s) = " " THEN TrimLeft(Tail(s)) ELSE s

RECURSIVE TrimRight(_)
TrimRight(s) ==
    IF s # <<>> /\ s[Len(s)] = " " THEN TrimRight(SubSeq(s, 1, Len(s) - 1)) ELSE s

\* String.prototype.trim
Trim(s) == TrimRight(TrimLeft(s))

Digits == <<"0", "1", "2", "3", "4", "5", "6", "7", "8", "9">>

IsDigit(c) == \E i \in DOMAIN Digits : Digits[i] = c

-----------------------------------------------------------------------------
(* The server's answers, drawn from small sets *)

\* Cluster collections a session detail can carry.
CollectionA ==
    { [id |-> 1, size |-> 2, name |-> Null], [id |-> 2, size |-> 2, name |-> <<"a">>] }

CollectionB == { [id |-> 2, size |-> 1, name |-> <<"b">>] }

\* The collection after clusters 1 and 2 have been merged into a new one.
CollectionC == { [id |-> 3, size |-> 4, name |-> Null] }

\* Bodies of a successful session-detail response, without the session id.
DetailPayloads ==
    [status : {"PROCESSING", "FAILURE"}, clusters : {{}}]
        \cup [status : {"SUCCESS"}, clusters : {CollectionA, CollectionB}]
        \cup [status : {"RECLUSTERED"}, clusters : {CollectionC}]

\* No body is read.
NoPayload == [status |-> "null", clusters |-> {}]

\* Bodies of a successful session-list response.
ListPayloads ==
    { [s \in SessionIds |-> Absent],
      [s \in SessionIds |-> IF s = 1 THEN "SUCCESS" ELSE Absent] }

\* HTTP responses: status, whether the body parses as JSON, and the
\* body's error / message fields ("" when the field is missing).
HttpResponses ==
    { [status |-> 200, json |-> TRUE,  error |-> "",  message |-> ""],
      [status |-> 204, json |-> FALSE, error |-> "",  message |-> ""],
      [status |-> 401, json |-> TRUE,  error |-> "E", message |-> ""],
      [status |-> 404, json |-> TRUE,  error |-> "E", message |-> ""] }

\* Response.ok
Ok(resp) == resp.status >= 200 /\ resp.status <= 299

\* A handleResponse that trusts a successful status.
HandleResponseTrusting(resp) ==
    IF ~Ok(resp)
    THEN [outcome |-> "throw",
          message |-> IF ~resp.json THEN "HTTP_NOT_JSON"
                      ELSE IF resp.error # "" THEN resp.error
                      ELSE IF resp.message # "" THEN resp.message
                      ELSE "HTTP_STATUS"]
    ELSE [outcome |-> "data", message |-> ""]

\* handleResponse: "data" (the parsed body is returned), "null" (null is
\* returned) or "throw" with the Error's message.
HandleResponse(resp) ==
    IF resp.status = 204 THEN [outcome |-> "null", message |-> ""]
    ELSE IF ~resp.json
         THEN IF ~Ok(resp)
              THEN [outcome |-> "throw", message |-> "HTTP_NOT_JSON"]
              ELSE [outcome |-> "null", message |-> ""]
         ELSE IF ~Ok(resp)
              THEN [outcome |-> "throw",
                    message |-> IF resp.error # "" THEN resp.error
                                ELSE IF resp.message # "" THEN resp.message
                                ELSE "HTTP_STATUS"]
              ELSE [outcome |-> "data", message |-> ""]

\* What a caller that dereferences the returned value ends with: the data,
\* or an Error caught by its catch block (a null body raises a TypeError).
Settle(resp) ==
    LET h == HandleResponse(resp)
    IN  IF h.outcome = "null" THEN [outcome |-> "throw", message |-> "TypeError"] ELSE h

\* The responses the API client is checked with: a JSON body with or without
\* an error and a message field, or a body that does not parse.
GatewayResponses ==
    [status : {200, 204, 401, 404, 500}, json : {TRUE}, error : {"", "E"},
     message : {"", "M"}]
        \cup [status : {200, 204, 401, 404, 500}, json : {FALSE}, error : {""},
              message : {""}]

\* The API functions that return handleResponse(response).
JsonOps == {"detail", "list", "start", "adjust", "delete"}

\* exportAssignmentsCsv, exportClusterSummaryJson, exportSessionSummaryJson
ExportOps == {"assignments.csv", "cluster_summary.json", "session_summary.json"}

\* The three export functions: a response that is not ok throws with the
\* body's error field, else with a text naming the status; an ok response is
\* downloaded as a file.
ExportResponse(resp) ==
    IF ~Ok(resp)
    THEN [outcome |-> "throw",
          message |-> IF ~resp.json THEN "HTTP_ERROR_STATUS"
                      ELSE IF resp.error # "" THEN resp.error
                      ELSE "EXPORT_FAILED_STATUS"]
    ELSE [outcome |-> "download", message |-> ""]

\* What the API function kind makes of the response.
GatewayResult(kind, resp) ==
    IF kind \in ExportOps THEN ExportResponse(resp) ELSE HandleResponse(resp)

-----------------------------------------------------------------------------
(* State *)

VARIABLES
    isAuthenticated,        \* App: the dashboard is mounted iff TRUE
    authToken,              \* App: the token sent with every request
    storedToken,            \* localStorage item 'authToken'
    currentUser,            \* App: the user, NoUser when logged out
    authLoading,            \* App: "checking authorization" is shown
    sessions,               \* [SessionIds -> Statuses \cup {Absent}]
    currentSessionId,
    currentSessionDetails,
    clusters,
    isLoading,
    isFetchingSessions,
    isFetchingResults,
    isDeletingId,
    error,
    cards,                  \* cluster id -> state of its mounted ContactSheet
    selectedIds,            \* the selection set
    adjustInFlight,         \* the shared in-flight marker of rename/merge/split
    splitTarget,            \* cluster of the open split modal, NoId when closed
    numSplits,              \* the split modal's input text
    inflight,               \* bag of requests awaiting their response
    lastOp                  \* the step taken last and its outcome (history)

vars ==
    << isAuthenticated, authToken, storedToken, currentUser, authLoading, sessions,
       currentSessionId, currentSessionDetails, clusters,
       isLoading, isFetchingSessions, isFetchingResults, isDeletingId, error,
       cards, selectedIds, adjustInFlight, splitTarget, numSplits, inflight, lastOp >>

\* A request awaiting its response. action/name/n/ids are the adjust
\* payload; awaited marks a reconciliation fetch its operation waits for.
Req(kind, sid, cid) ==
    [kind |-> kind, sid |-> sid, cid |-> cid, action |-> "", name |-> <<>>, n |-> 0,
     ids |-> {}, awaited |-> FALSE]

\* The state of App.
app == << isAuthenticated, authToken, storedToken, currentUser, authLoading >>

Send(bag, r) == bag (+) SetToBag({r})
Take(bag, r) == bag (-) SetToBag({r})
Pending == BagToSet(inflight)

Op(op, res, sid, cid, pre) == [op |-> op, res |-> res, sid |-> sid, cid |-> cid, pre |-> pre]

\* The outcome of a reconciliation fetch: the operation it follows and the
\* cluster collection the server has answered with.
OpOf(op, res, pre, act, got) ==
    [op |-> op, res |-> res, sid |-> NoId, cid |-> NoId, pre |-> pre, act |-> act,
     got |-> got]

\* A step of the user interface that no property singles out.
UiStep == Op("ui", "", NoId, NoId, FALSE)

ClusterIdsOf(cs) == { c.id : c \in cs }
ClusterOf(cs, id) == CHOOSE c \in cs : c.id = id

isProcessing ==
    isLoading \/ isFetchingSessions \/ isFetchingResults \/ isDeletingId # NoId

\* The session id the server issues for a new session.
FreshIds == { s \in SessionIds : sessions[s] = Absent }
Fresh == CHOOSE s \in FreshIds : \A t \in FreshIds : s <= t

-----------------------------------------------------------------------------
(* Rendering of the cluster cards *)

\* The dashboard shows the grid of cards only for a fetched, result-bearing
\* session with clusters.
RenderedIn(cur, fetching, details, cs) ==
    /\ cur # NoId
    /\ ~fetching
    /\ details # NoDetails
    /\ details.status \in ResultStatuses
    /\ cs # {}

Rendered ==
    RenderedIn(currentSessionId, isFetchingResults, currentSessionDetails, clusters)

NoCards == [id \in {} |-> 0]

\* useState initial values of a card mounted for cluster c.
MountCard(c) ==
    [isEditing |-> FALSE, currentName |-> OrEmpty(c.name), isSavingName |-> FALSE]

\* ContactSheet's effect on [initialName, isSavingName].
CardEffect(card, initialName) ==
    [card EXCEPT !.currentName = OrEmpty(initialName),
                 !.isEditing = IF card.isSavingName THEN card.isEditing ELSE FALSE]

\* The cards after a render: a card keyed by a cluster id that stays keeps
\* its state and runs its effect when its name prop changed; other cards
\* are mounted anew; without a grid there are none.
CardsAfter(old, oldCs, newCs, rendered) ==
    IF ~rendered THEN NoCards
    ELSE [id \in ClusterIdsOf(newCs) |->
            IF id \in DOMAIN old
            THEN IF ClusterOf(newCs, id).name # ClusterOf(oldCs, id).name
                 THEN CardEffect(old[id], ClusterOf(newCs, id).name)
                 ELSE old[id]
            ELSE MountCard(ClusterOf(newCs, id))]

Render(cardsIn) ==
    cards' = CardsAfter(cardsIn, clusters, clusters',
                        RenderedIn(currentSessionId', isFetchingResults',
                                   currentSessionDetails', clusters'))

-----------------------------------------------------------------------------
(* Selection set *)

\* A clear() that leaves the selection as it is.
KeepSelection == selectedIds

\* clear()
ClearSelection == {}

\* toggle(id)
Toggle(sel, id) == IF id \in sel THEN sel \ {id} ELSE sel \cup {id}

\* A reconciliation that does not re-derive the selection.
NoPrune(sel, cs) == sel

\* Selection validity re-derived against a fresh cluster collection.
Prune(sel, cs) == sel \cap ClusterIdsOf(cs)

-----------------------------------------------------------------------------
(* Initial state: the user is logged in and the dashboard has just mounted *)

\* The dashboard has mounted and its mount effect has sent the list fetch.
JustMounted ==
    /\ isAuthenticated = TRUE
    /\ authToken = Token
    /\ storedToken = Token
    /\ currentUser = User
    /\ authLoading = FALSE
    /\ sessions = [s \in SessionIds |-> Absent]
    /\ currentSessionId = NoId
    /\ currentSessionDetails = NoDetails
    /\ clusters = {}
    /\ isLoading = FALSE
    /\ isFetchingSessions = TRUE
    /\ isFetchingResults = FALSE
    /\ isDeletingId = NoId
    /\ error = NoError
    /\ cards = NoCards
    /\ selectedIds = {}
    /\ adjustInFlight = FALSE
    /\ splitTarget = NoId
    /\ numSplits = <<"2">>
    /\ inflight = SetToBag({Req("sessions", NoId, NoId)})

Init == JustMounted /\ lastOp = Op("mount", "", NoId, NoId, FALSE)

-----------------------------------------------------------------------------
(* App: a 401 seen by fetchWithAuth logs the user out, which unmounts the  *)
(* dashboard; state updates of an unmounted component are dropped.         *)

\* A request of a dashboard that has been unmounted since: its response
\* still passes through the fetchWithAuth that sent it.
Orphan == Req("orphan", NoId, NoId)

\* The /api/me request of App's token validation.
MeReq == Req("me", NoId, NoId)

\* n copies of the request r.
Copies(r, n) == IF n = 0 THEN EmptyBag ELSE [x \in {r} |-> n]

\* The requests of bag after the unmount of the dashboard: those it has
\* sent are left behind, those of App keep their continuation.
Orphaned(bag) ==
    Copies(MeReq, CopiesIn(MeReq, bag))
        (+) Copies(Orphan, BagCardinality(bag) - CopiesIn(MeReq, bag))

\* A logout that leaves the token in localStorage.
handleLogoutKeepingStoredToken(op, bag) ==
    /\ storedToken' = storedToken
    /\ authToken' = NoToken
    /\ currentUser' = NoUser
    /\ isAuthenticated' = FALSE
    /\ authLoading' = FALSE
    /\ sessions' = [s \in SessionIds |-> Absent]
    /\ currentSessionId' = NoId
    /\ currentSessionDetails' = NoDetails
    /\ clusters' = {}
    /\ isLoading' = FALSE
    /\ isFetchingSessions' = FALSE
    /\ isFetchingResults' = FALSE
    /\ isDeletingId' = NoId
    /\ error' = NoError
    /\ cards' = NoCards
    /\ selectedIds' = {}
    /\ adjustInFlight' = FALSE
    /\ splitTarget' = NoId
    /\ numSplits' = <<"2">>
    /\ inflight' = Orphaned(bag)
    /\ lastOp' = op

\* handleLogout, with the unmount of the dashboard that its render brings
\* and the effect that clears authLoading once nobody is authenticated and
\* no token is held; bag holds the requests still awaiting their response.
handleLogout(op, bag) ==
    /\ storedToken' = NoToken
    /\ authToken' = NoToken
    /\ currentUser' = NoUser
    /\ isAuthenticated' = FALSE
    /\ authLoading' = FALSE
    /\ sessions' = [s \in SessionIds |-> Absent]
    /\ currentSessionId' = NoId
    /\ currentSessionDetails' = NoDetails
    /\ clusters' = {}
    /\ isLoading' = FALSE
    /\ isFetchingSessions' = FALSE
    /\ isFetchingResults' = FALSE
    /\ isDeletingId' = NoId
    /\ error' = NoError
    /\ cards' = NoCards
    /\ selectedIds' = {}
    /\ adjustInFlight' = FALSE
    /\ splitTarget' = NoId
    /\ numSplits' = <<"2">>
    /\ inflight' = Orphaned(bag)
    /\ lastOp' = op

-----------------------------------------------------------------------------
(* App: page load, token validation, login and logout *)

\* The page has just loaded: nobody is authenticated, and localStorage may
\* hold the token of an earlier visit.
InitApp ==
    /\ isAuthenticated = FALSE
    /\ authToken = NoToken
    /\ storedToken \in {NoToken, Token}
    /\ currentUser = NoUser
    /\ authLoading = TRUE
    /\ sessions = [s \in SessionIds |-> Absent]
    /\ currentSessionId = NoId
    /\ currentSessionDetails = NoDetails
    /\ clusters = {}
    /\ isLoading = FALSE
    /\ isFetchingSessions = FALSE
    /\ isFetchingResults = FALSE
    /\ isDeletingId = NoId
    /\ error = NoError
    /\ cards = NoCards
    /\ selectedIds = {}
    /\ adjustInFlight = FALSE
    /\ splitTarget = NoId
    /\ numSplits = <<"2">>
    /\ inflight = EmptyBag
    /\ lastOp = Op("load", "", NoId, NoId, FALSE)

\* The render with isAuthenticated = true mounts the dashboard, whose mount
\* effect fetches the session list.
MountDashboard(bag) ==
    /\ isAuthenticated' = TRUE
    /\ sessions' = [s \in SessionIds |-> Absent]
    /\ isFetchingSessions' = TRUE
    /\ inflight' = Send(bag, Req("sessions", NoId, NoId))
    /\ UNCHANGED << currentSessionId, currentSessionDetails, clusters, isLoading,
                    isFetchingResults, isDeletingId, error, cards, selectedIds,
                    adjustInFlight, splitTarget, numSplits >>

\* fetchWithAuth's own reaction to a response: it logs out on a 401 when the
\* isAuthenticated it was created with is true.
fetchWithAuthLogsOut(resp, authenticated) == resp.status = 401 /\ authenticated

\* The effects of the first renders with a stored token: the token becomes
\* authToken, and the validation effect runs for the render with authLoading
\* false, which sets it, and again for the render with authLoading true, so
\* that /api/me is requested twice.
RestoreToken ==
    /\ ~isAuthenticated
    /\ authToken = NoToken
    /\ storedToken # NoToken
    /\ authToken' = storedToken
    /\ authLoading' = TRUE
    /\ inflight' = Send(Send(inflight, MeReq), MeReq)
    /\ lastOp' = Op("restoreToken", "", NoId, NoId, FALSE)
    /\ UNCHANGED << isAuthenticated, storedToken, currentUser, sessions, currentSessionId,
                    currentSessionDetails, clusters, isLoading, isFetchingSessions,
                    isFetchingResults, isDeletingId, error, cards, selectedIds,
                    adjustInFlight, splitTarget, numSplits >>

\* The effects of the first render without a stored token.
NoStoredToken ==
    /\ ~isAuthenticated
    /\ authToken = NoToken
    /\ storedToken = NoToken
    /\ authLoading
    /\ authLoading' = FALSE
    /\ lastOp' = Op("noStoredToken", "", NoId, NoId, FALSE)
    /\ UNCHANGED << isAuthenticated, authToken, storedToken, currentUser, sessions,
                    currentSessionId, currentSessionDetails, clusters, isLoading,
                    isFetchingSessions, isFetchingResults, isDeletingId, error, cards,
                    selectedIds, adjustInFlight, splitTarget, numSplits, inflight >>

\* A validation effect without its branch for a missing token.
KeepsSessionWithoutToken(token, authenticated) == FALSE

\* The validation effect's branch `!authToken && isAuthenticated`: it logs
\* out.
LogsOutWithoutToken(token, authenticated) == token = NoToken /\ authenticated

\* A validation whose promise chain has no finally block.
StillLoading == TRUE

\* authLoading after the finally block of the validation's promise chain.
LoadingAfterValidation == FALSE

\* The response to /api/me. The request went through a fetchWithAuth created
\* with isAuthenticated = false; the promise chain logs out on a 401, on any
\* other failure and on a body without a user. With a user it sets
\* currentUser and isAuthenticated: if a logout has nulled the token since
\* the request was sent, the dashboard is mounted, sends its list fetch, and
\* the validation effect logs out again.
MeResponse(resp, hasUser) ==
    LET r == MeReq
        res == IF resp.status = 401 THEN "401"
               ELSE IF Ok(resp) /\ resp.json /\ hasUser THEN "user" ELSE "error"
    IN  /\ r \in Pending
        /\ IF fetchWithAuthLogsOut(resp, FALSE) \/ res # "user"
           THEN handleLogout(Op("me", res, NoId, NoId, isAuthenticated), Take(inflight, r))
           ELSE IF LogsOutWithoutToken(authToken, TRUE)
           THEN handleLogout(Op("me", res, NoId, NoId, isAuthenticated),
                             Send(Take(inflight, r), Req("sessions", NoId, NoId)))
           ELSE /\ IF isAuthenticated
                   THEN /\ inflight' = Take(inflight, r)
                        /\ UNCHANGED << isAuthenticated, sessions, isFetchingSessions,
                                        currentSessionId, currentSessionDetails, clusters,
                                        isLoading, isFetchingResults, isDeletingId, error,
                                        cards, selectedIds, adjustInFlight, splitTarget,
                                        numSplits >>
                   ELSE MountDashboard(Take(inflight, r))
                /\ currentUser' = User
                /\ authLoading' = LoadingAfterValidation
                /\ lastOp' = Op("me", res, NoId, NoId, isAuthenticated)
                /\ UNCHANGED << authToken, storedToken >>

\* handleLogin, answered with a token and a user.
handleLogin ==
    /\ ~isAuthenticated
    /\ ~authLoading
    /\ authToken = NoToken
    /\ storedToken = NoToken
    /\ BagCardinality(inflight) < MaxInFlight
    /\ storedToken' = Token
    /\ authToken' = Token
    /\ currentUser' = User
    /\ authLoading' = authLoading
    /\ MountDashboard(inflight)
    /\ lastOp' = Op("login", "", NoId, NoId, FALSE)

\* handleLogin, answered 401: it throws to the login form, and the state of
\* App is left as it is.
LoginRejected ==
    /\ ~isAuthenticated
    /\ ~authLoading
    /\ authToken = NoToken
    /\ storedToken = NoToken
    /\ lastOp' = Op("login", "401", NoId, NoId, FALSE)
    /\ UNCHANGED << app, sessions, currentSessionId, currentSessionDetails, clusters,
                    isLoading, isFetchingSessions, isFetchingResults, isDeletingId, error,
                    cards, selectedIds, adjustInFlight, splitTarget, numSplits, inflight >>

\* The logout button of the header.
LogoutClick ==
    /\ isAuthenticated
    /\ handleLogout(Op("logoutClick", "", NoId, NoId, TRUE), inflight)

\* The response to a request of a dashboard that is no longer mounted: the
\* fetchWithAuth that sent it was created with isAuthenticated = true, and
\* the state updates of the caller are dropped.
OrphanResponse(resp) ==
    /\ Orphan \in Pending
    /\ IF fetchWithAuthLogsOut(resp, TRUE)
       THEN handleLogout(Op("orphan", "401", NoId, NoId, isAuthenticated),
                         Take(inflight, Orphan))
       ELSE /\ inflight' = Take(inflight, Orphan)
            /\ lastOp' = Op("orphan", "dropped", NoId, NoId, isAuthenticated)
            /\ UNCHANGED << app, sessions, currentSessionId, currentSessionDetails,
                            clusters, isLoading, isFetchingSessions, isFetchingResults,
                            isDeletingId, error, cards, selectedIds, adjustInFlight,
                            splitTarget, numSplits >>

-----------------------------------------------------------------------------
(* API client: one call of an API function and its response *)

\* A call of an API function awaits a response.
InitGateway ==
    /\ JustMounted
    /\ lastOp \in [op : {"call"}, kind : JsonOps \cup ExportOps, resp : GatewayResponses,
                   outcome : {"pending"}, message : {""}]

\* The API function returns or throws.
GatewayReturns ==
    /\ lastOp.op = "call"
    /\ lastOp.outcome = "pending"
    /\ lastOp' = [lastOp EXCEPT
                     !.outcome = GatewayResult(lastOp.kind, lastOp.resp).outcome,
                     !.message = GatewayResult(lastOp.kind, lastOp.resp).message]
    /\ UNCHANGED << app, sessions, currentSessionId, currentSessionDetails, clusters,
                    isLoading, isFetchingSessions, isFetchingResults, isDeletingId, error,
                    cards, selectedIds, adjustInFlight, splitTarget, numSplits, inflight >>

-----------------------------------------------------------------------------
(* ClusteringDashboard: session list *)

\* The continuation of fetchSessions. A 2xx list response without a JSON
\* body makes the next render throw and is left out of the responses.
SessionsResponse(resp) ==
    LET r == Req("sessions", NoId, NoId)
        h == HandleResponse(resp)
    IN  /\ isAuthenticated
        /\ r \in Pending
        /\ h.outcome # "null"
        /\ IF resp.status = 401
           THEN handleLogout(Op("fetchSessions", "401", NoId, NoId, FALSE), Take(inflight, r))
           ELSE /\ IF h.outcome = "data"
                   THEN /\ \E list \in ListPayloads : sessions' = list
                        /\ error' = error
                   ELSE /\ sessions' = sessions
                        /\ error' = h.message
                /\ isFetchingSessions' = FALSE
                /\ inflight' = Take(inflight, r)
                /\ lastOp' = Op("fetchSessions", h.outcome, NoId, NoId, FALSE)
                /\ UNCHANGED << app, currentSessionId, currentSessionDetails,
                                clusters, isLoading, isFetchingResults, isDeletingId,
                                selectedIds, adjustInFlight, splitTarget, numSplits >>
                /\ Render(cards)

-----------------------------------------------------------------------------
(* ClusteringDashboard: the effect on [currentSessionId] *)

\* The synchronous part of the effect for a new non-null currentSessionId:
\* fetchResults up to its await. The selection set is cleared with it.
SessionChanged(newId, bag) ==
    /\ currentSessionId' = newId
    /\ isFetchingResults' = TRUE
    /\ error' = NoError
    /\ clusters' = {}
    /\ currentSessionDetails' = NoDetails
    /\ selectedIds' = ClearSelection
    /\ inflight' = Send(bag, Req("results", newId, NoId))

\* A click on a session of the list.
SelectSession(s) ==
    /\ isAuthenticated
    /\ splitTarget = NoId
    /\ ~isFetchingSessions
    /\ sessions[s] # Absent
    /\ ~isProcessing
    /\ s # currentSessionId
    /\ BagCardinality(inflight) < MaxInFlight
    /\ SessionChanged(s, inflight)
    /\ lastOp' = Op("selectSession", "", NoId, NoId, selectedIds # {})
    /\ UNCHANGED << app, sessions, isLoading, isFetchingSessions, isDeletingId,
                    adjustInFlight, splitTarget, numSplits >>
    /\ Render(cards)

\* The continuation of fetchResults for the request r. The response is
\* applied whatever the active session is by then; a null body is stored
\* as the details before reading its clusters throws.
ResultsResponse(r, resp) ==
    LET h == HandleResponse(resp)
    IN  /\ isAuthenticated
        /\ r \in Pending
        /\ r.kind = "results"
        /\ IF resp.status = 401
           THEN handleLogout(Op("fetchResults", "401", r.sid, NoId, FALSE), Take(inflight, r))
           ELSE /\ IF h.outcome = "data"
                   THEN /\ \E d \in DetailPayloads :
                            /\ currentSessionDetails' =
                                   [session_id |-> r.sid, status |-> d.status]
                            /\ clusters' = d.clusters
                        /\ error' = error
                   ELSE IF h.outcome = "null"
                   THEN /\ currentSessionDetails' = NoDetails
                        /\ clusters' = clusters
                        /\ error' = Settle(resp).message
                   ELSE /\ UNCHANGED << currentSessionDetails, clusters >>
                        /\ error' = h.message
                /\ isFetchingResults' = FALSE
                /\ inflight' = Take(inflight, r)
                /\ lastOp' = Op("fetchResults",
                                IF h.outcome = "data" THEN "data"
                                ELSE IF resp.status = 404 THEN "404" ELSE "error",
                                r.sid, NoId, FALSE)
                /\ selectedIds' = selectedIds
                /\ UNCHANGED << app, sessions, currentSessionId, isLoading,
                                isFetchingSessions, isDeletingId, adjustInFlight,
                                splitTarget, numSplits >>
                /\ Render(cards)

-----------------------------------------------------------------------------
(* ClusteringDashboard: start job *)

\* handleStartClustering up to its await, for a valid form.
StartClustering ==
    /\ isAuthenticated
    /\ splitTarget = NoId
    /\ ~isProcessing
    /\ BagCardinality(inflight) < MaxInFlight
    /\ isLoading' = TRUE
    /\ error' = NoError
    /\ inflight' = Send(inflight, Req("start", NoId, NoId))
    /\ lastOp' = Op("startClustering", "sent", NoId, NoId, FALSE)
    /\ UNCHANGED << app, sessions, currentSessionId, currentSessionDetails,
                    clusters, isFetchingSessions, isFetchingResults, isDeletingId,
                    selectedIds, adjustInFlight, splitTarget, numSplits >>
    /\ Render(cards)

\* A start that leaves the session list as it is.
ListWithoutNew(list, id) == list

\* setSessions(prev => [newSessionItem, ...prev]) with the item of status
\* STARTED built for the returned session id.
ListWithNew(list, id) == [list EXCEPT ![id] = "STARTED"]

\* The continuation of handleStartClustering.
StartResponse(resp) ==
    LET r == Req("start", NoId, NoId)
        h == Settle(resp)
    IN  /\ isAuthenticated
        /\ r \in Pending
        /\ h.outcome = "data" => FreshIds # {}
        /\ IF resp.status = 401
           THEN handleLogout(Op("startClustering", "401", NoId, NoId, FALSE),
                             Take(inflight, r))
           ELSE /\ IF h.outcome = "data"
                   THEN /\ sessions' = ListWithNew(sessions, Fresh)
                        /\ SessionChanged(Fresh, Take(inflight, r))
                   ELSE /\ error' = h.message
                        /\ inflight' = Take(inflight, r)
                        /\ UNCHANGED << sessions, currentSessionId, currentSessionDetails,
                                        clusters, isFetchingResults, selectedIds >>
                /\ isLoading' = FALSE
                /\ lastOp' = Op("startClustering", h.outcome, NoId, NoId, selectedIds # {})
                /\ UNCHANGED << app, isFetchingSessions, isDeletingId,
                                adjustInFlight, splitTarget, numSplits >>
                /\ Render(cards)

-----------------------------------------------------------------------------
(* The start form: validation before the start request *)

\* ALGORITHMS: the parameters each algorithm requires.
RequiredParams(algorithm) ==
    IF algorithm = "kmeans" THEN {"n_clusters"}
    ELSE IF algorithm = "dbscan" THEN {"eps", "min_samples"}
    ELSE {}

IntegerParams == {"n_clusters", "min_samples"}

\* The texts of a parameter input; Null is a parameter never typed.
ParamTexts ==
    { Null, <<>>, <<" ">>, <<"0">>, <<"3">>, <<"-", "1">>, <<"2", ".", "5">>, <<"a">> }

\* The forms the user can have filled in: handleAlgorithmChange empties the
\* parameters, so only those of the chosen algorithm can hold a text.
StartForms ==
    { f \in [file : BOOLEAN, algorithm : {"", "kmeans", "dbscan"},
             n_clusters : ParamTexts, eps : ParamTexts, min_samples : ParamTexts] :
        \A p \in {"n_clusters", "eps", "min_samples"} :
            p \notin RequiredParams(f.algorithm) => f[p] = Null }

Unsigned(t) == IF t # <<>> /\ Head(t) \in {"-", "+"} THEN Tail(t) ELSE t

\* The position of the decimal point, 0 when there is none.
DotAt(u) ==
    IF \E i \in DOMAIN u : u[i] = "."
    THEN CHOOSE i \in DOMAIN u : u[i] = "." /\ \A j \in 1..(i - 1) : u[j] # "."
    ELSE 0

WholePart(u) == IF DotAt(u) = 0 THEN u ELSE SubSeq(u, 1, DotAt(u) - 1)
FracPart(u) == IF DotAt(u) = 0 THEN <<>> ELSE SubSeq(u, DotAt(u) + 1, Len(u))

IsDecimal(u) ==
    /\ \A i \in DOMAIN WholePart(u) : IsDigit(WholePart(u)[i])
    /\ \A i \in DOMAIN FracPart(u) : IsDigit(FracPart(u)[i])
    /\ WholePart(u) # <<>> \/ FracPart(u) # <<>>

\* Number(valueStr) for a text in decimal notation: whether it is NaN,
\* whether it is > 0 and whether Number.isInteger holds. White space is
\* trimmed and the empty text is 0.
NumberOf(text) ==
    LET t == Trim(text)
        u == Unsigned(t)
    IN  IF t = <<>> THEN [nan |-> FALSE, positive |-> FALSE, integer |-> TRUE]
        ELSE IF ~IsDecimal(u) THEN [nan |-> TRUE, positive |-> FALSE, integer |-> FALSE]
        ELSE [nan |-> FALSE,
              positive |-> /\ Head(t) # "-"
                           /\ \E i \in DOMAIN u : IsDigit(u[i]) /\ u[i] # "0",
              integer |-> \A i \in DOMAIN FracPart(u) : FracPart(u)[i] = "0"]

\* A validation that accepts a fraction for an integer parameter.
validateWithoutIntegerCheck(f) ==
    /\ f.algorithm # ""
    /\ \A p \in RequiredParams(f.algorithm) :
          /\ f[p] # Null /\ f[p] # <<>>
          /\ ~NumberOf(f[p]).nan
          /\ NumberOf(f[p]).positive

\* ClusteringDashboard.validateAndParseParams: TRUE when it returns the
\* parsed parameters, FALSE when it returns null.
validateAndParseParams(f) ==
    /\ f.algorithm # ""
    /\ \A p \in RequiredParams(f.algorithm) :
          /\ f[p] # Null /\ f[p] # <<>>
          /\ ~NumberOf(f[p]).nan
          /\ p \in IntegerParams => NumberOf(f[p]).positive
          /\ p = "eps" => NumberOf(f[p]).positive
          /\ p \in IntegerParams => NumberOf(f[p]).integer

\* ClusteringControls.validateAndParseParams
validateAndParseParamsControls(f) ==
    /\ f.algorithm # ""
    /\ \A p \in RequiredParams(f.algorithm) :
          /\ f[p] # Null /\ f[p] # <<>>
          /\ ~NumberOf(f[p]).nan
          /\ p \in IntegerParams => NumberOf(f[p]).integer /\ NumberOf(f[p]).positive
          /\ p = "eps" => NumberOf(f[p]).positive

\* The start button of the dashboard is disabled.
startDisabled(f) == isProcessing \/ ~f.file \/ f.algorithm = ""

\* isSubmitDisabled of ClusteringControls, with its disabled prop and
\* isSubmitting false.
isSubmitDisabled(f) ==
    \/ ~f.file
    \/ f.algorithm = ""
    \/ \E p \in RequiredParams(f.algorithm) : f[p] \in {Null, <<>>}

\* The dashboard is idle and the user has filled in the start form of the
\* dashboard or of ClusteringControls.
InitForm ==
    /\ isAuthenticated = TRUE
    /\ authToken = Token
    /\ storedToken = Token
    /\ currentUser = User
    /\ authLoading = FALSE
    /\ sessions \in ListPayloads
    /\ currentSessionId = NoId
    /\ currentSessionDetails = NoDetails
    /\ clusters = {}
    /\ isLoading = FALSE
    /\ isFetchingSessions = FALSE
    /\ isFetchingResults = FALSE
    /\ isDeletingId = NoId
    /\ error = NoError
    /\ cards = NoCards
    /\ selectedIds = {}
    /\ adjustInFlight = FALSE
    /\ splitTarget = NoId
    /\ numSplits = <<"2">>
    /\ inflight = EmptyBag
    /\ lastOp \in [op : {"form"}, component : {"dashboard", "controls"}, form : StartForms,
                   res : {"pending"}]

\* A click on the start button of the dashboard: handleStartClustering up
\* to its await.
SubmitStartForm ==
    /\ lastOp.op = "form"
    /\ lastOp.res = "pending"
    /\ lastOp.component = "dashboard"
    /\ ~startDisabled(lastOp.form)
    /\ IF lastOp.form.file /\ validateAndParseParams(lastOp.form)
       THEN /\ isLoading' = TRUE
            /\ error' = NoError
            /\ inflight' = Send(inflight, Req("start", NoId, NoId))
            /\ lastOp' = [lastOp EXCEPT !.res = "sent"]
       ELSE /\ lastOp' = [lastOp EXCEPT !.res = "rejected"]
            /\ UNCHANGED << isLoading, error, inflight >>
    /\ UNCHANGED << app, sessions, currentSessionId, currentSessionDetails,
                    clusters, isFetchingSessions, isFetchingResults, isDeletingId,
                    selectedIds, adjustInFlight, splitTarget, numSplits >>
    /\ Render(cards)

\* A click on the start button of ClusteringControls: handleSubmit up to
\* its call of onStartClustering.
handleSubmit ==
    /\ lastOp.op = "form"
    /\ lastOp.res = "pending"
    /\ lastOp.component = "controls"
    /\ ~isSubmitDisabled(lastOp.form)
    /\ lastOp' = [lastOp EXCEPT
                     !.res = IF lastOp.form.file /\ validateAndParseParamsControls(lastOp.form)
                             THEN "handed" ELSE "rejected"]
    /\ UNCHANGED << app, sessions, currentSessionId, currentSessionDetails, clusters,
                    isLoading, isFetchingSessions, isFetchingResults, isDeletingId, error,
                    cards, selectedIds, adjustInFlight, splitTarget, numSplits, inflight >>

-----------------------------------------------------------------------------
(* ClusteringDashboard: delete a cluster and recluster *)

\* The delete button of the card of cluster id is disabled while
\* isDeletingId is that id and for a RECLUSTERED session.
isDeleting(id) ==
    isDeletingId = id \/ currentSessionDetails.status = "RECLUSTERED"

\* handleDeleteClusterAndRecluster up to its await.
DeleteClusterAndRecluster(id) ==
    /\ isAuthenticated
    /\ splitTarget = NoId
    /\ Rendered
    /\ id \in ClusterIdsOf(clusters)
    /\ ~isDeleting(id)
    /\ currentSessionId # NoId
    /\ BagCardinality(inflight) < MaxInFlight
    /\ isDeletingId' = id
    /\ isLoading' = TRUE
    /\ error' = NoError
    /\ inflight' = Send(inflight, Req("delete", currentSessionId, id))
    /\ lastOp' = Op("deleteCluster", "sent", NoId, NoId, FALSE)
    /\ UNCHANGED << app, sessions, currentSessionId, currentSessionDetails,
                    clusters, isFetchingSessions, isFetchingResults, selectedIds,
                    adjustInFlight, splitTarget, numSplits >>
    /\ Render(cards)

\* A catch block that gives up the session whose delete failed.
DeleteFailedResetting(message, bag) ==
    /\ error' = message
    /\ inflight' = bag
    /\ currentSessionId' = NoId
    /\ currentSessionDetails' = NoDetails
    /\ clusters' = {}
    /\ UNCHANGED << sessions, isFetchingResults, selectedIds >>

\* The catch block of handleDeleteClusterAndRecluster: the error text is
\* set; bag holds the requests still awaiting their response.
DeleteFailed(message, bag) ==
    /\ error' = message
    /\ inflight' = bag
    /\ UNCHANGED << sessions, currentSessionId, currentSessionDetails, clusters,
                    isFetchingResults, selectedIds >>

\* The continuation of handleDeleteClusterAndRecluster for the request r.
DeleteResponse(r, resp) ==
    LET h == Settle(resp)
    IN  /\ isAuthenticated
        /\ r \in Pending
        /\ r.kind = "delete"
        /\ h.outcome = "data" => FreshIds # {}
        /\ IF resp.status = 401
           THEN handleLogout(Op("deleteCluster", "401", NoId, NoId, FALSE),
                             Take(inflight, r))
           ELSE /\ IF h.outcome = "data"
                   THEN /\ sessions' =
                              [s \in SessionIds |->
                                  IF s = Fresh THEN "STARTED"
                                  ELSE IF s = r.sid /\ sessions[s] # Absent
                                       THEN "RECLUSTERED"
                                       ELSE sessions[s]]
                        /\ SessionChanged(Fresh, Take(inflight, r))
                   ELSE DeleteFailed(h.message, Take(inflight, r))
                /\ isDeletingId' = NoId
                /\ isLoading' = FALSE
                /\ lastOp' = Op("deleteCluster", h.outcome, NoId, NoId, selectedIds # {})
                /\ UNCHANGED << app, isFetchingSessions, adjustInFlight,
                                splitTarget, numSplits >>
                /\ Render(cards)

-----------------------------------------------------------------------------
(* ContactSheetsGrid and ContactSheet: the cluster card *)

\* The grid's disabled prop, computed by the dashboard.
gridDisabled == isProcessing \/ adjustInFlight

\* The card's isProcessing prop.
cardProcessing(id) == isDeletingId = id \/ gridDisabled

commonDisabled(id) ==
    cardProcessing(id) \/ cards[id].isEditing \/ cards[id].isSavingName

\* Texts typed into the name input.
NameInputs == { <<"a", " ">> }

handleRenameClick(id) ==
    /\ isAuthenticated
    /\ id \in DOMAIN cards
    /\ ~commonDisabled(id)
    /\ cards' = [cards EXCEPT ![id].isEditing = TRUE]
    /\ lastOp' = UiStep
    /\ UNCHANGED << app, sessions, currentSessionId, currentSessionDetails,
                    clusters, isLoading, isFetchingSessions, isFetchingResults,
                    isDeletingId, error, selectedIds, adjustInFlight, splitTarget,
                    numSplits, inflight >>

handleNameChange(id, text) ==
    /\ isAuthenticated
    /\ id \in DOMAIN cards
    /\ cards[id].isEditing
    /\ ~cards[id].isSavingName
    /\ cards' = [cards EXCEPT ![id].currentName = text]
    /\ lastOp' = UiStep
    /\ UNCHANGED << app, sessions, currentSessionId, currentSessionDetails,
                    clusters, isLoading, isFetchingSessions, isFetchingResults,
                    isDeletingId, error, selectedIds, adjustInFlight, splitTarget,
                    numSplits, inflight >>

handleCancelClick(id) ==
    /\ isAuthenticated
    /\ id \in DOMAIN cards
    /\ cards[id].isEditing
    /\ ~cards[id].isSavingName
    /\ cards' = [cards EXCEPT ![id].isEditing = FALSE,
                              ![id].currentName = OrEmpty(ClusterOf(clusters, id).name)]
    /\ lastOp' = UiStep
    /\ UNCHANGED << app, sessions, currentSessionId, currentSessionDetails,
                    clusters, isLoading, isFetchingSessions, isFetchingResults,
                    isDeletingId, error, selectedIds, adjustInFlight, splitTarget,
                    numSplits, inflight >>

\* A save whose finally block is missing: the card stays in its saving state.
StillSavingCard(initialName) ==
    [isEditing |-> TRUE, currentName |-> OrEmpty(initialName), isSavingName |-> TRUE]

\* A card whose effect does not leave edit mode when the save has settled.
StillEditingCard(initialName) ==
    [isEditing |-> TRUE, currentName |-> OrEmpty(initialName), isSavingName |-> FALSE]

\* The card once its save has settled: isSavingName went to true and back to
\* false with a render in between, so the effect has reset the buffer to
\* the name prop and left edit mode.
SettledCard(initialName) ==
    [isEditing |-> FALSE, currentName |-> OrEmpty(initialName), isSavingName |-> FALSE]

\* The card while its save awaits onRename: the effect has run for
\* isSavingName = true.
SavingCard(initialName) ==
    [isEditing |-> TRUE, currentName |-> OrEmpty(initialName), isSavingName |-> TRUE]

\* The cards once the operation of request r has returned to its caller.
SettleCards(cs, r, newCs) ==
    IF r.action = "RENAME" /\ r.cid \in DOMAIN cs /\ cs[r.cid].isSavingName
    THEN [cs EXCEPT ![r.cid] = SettledCard(ClusterOf(newCs, r.cid).name)]
    ELSE cs

RenderSettled(r) ==
    cards' = SettleCards(CardsAfter(cards, clusters, clusters',
                                    RenderedIn(currentSessionId', isFetchingResults',
                                               currentSessionDetails', clusters')),
                         r, clusters')

-----------------------------------------------------------------------------
(* Adjustment coordinator: rename, merge, split *)

\* The operations require a result-bearing active session.
AdjustPermitted ==
    currentSessionId # NoId /\ currentSessionDetails.status \in ResultStatuses

\* A coordinator without the single-flight guard.
NeverInProgress == FALSE

\* The shared single-flight guard.
OperationInProgress == adjustInFlight \/ isDeletingId # NoId

AdjustReq(action, sid, cid, name, n, ids) ==
    [kind |-> "adjust", sid |-> sid, cid |-> cid, action |-> action, name |-> name,
     n |-> n, ids |-> ids, awaited |-> FALSE]

ReconcileReq(r, awaited) ==
    [kind |-> "reconcile", sid |-> r.sid, cid |-> r.cid, action |-> r.action,
     name |-> <<>>, n |-> 0, ids |-> {}, awaited |-> awaited]

\* Rename is a no-op when the new name equals the cluster's current name.
RenameIsNoOp(newName, cluster) == Trim(newName) = cluster.name

\* The outcome of the rename operation's synchronous part.
RenameOutcome(id, newName) ==
    IF ~AdjustPermitted \/ id \notin ClusterIdsOf(clusters) THEN "precondition"
    ELSE IF OperationInProgress THEN "in_progress"
    ELSE IF RenameIsNoOp(newName, ClusterOf(clusters, id)) THEN "noop"
    ELSE "sent"

\* handleSaveClick of the card of cluster id, with the onRename call it makes.
handleSaveClick(id) ==
    /\ isAuthenticated
    /\ id \in DOMAIN cards
    /\ cards[id].isEditing
    /\ ~cards[id].isSavingName
    /\ LET initialName == ClusterOf(clusters, id).name
           currentName == cards[id].currentName
           pre == Trim(currentName) = OrEmpty(initialName)
           res == RenameOutcome(id, Trim(currentName))
       IN  IF currentName = initialName
           THEN /\ cards' = [cards EXCEPT ![id].isEditing = FALSE]
                /\ lastOp' = Op("rename", "unchanged", NoId, NoId, pre)
                /\ UNCHANGED << adjustInFlight, inflight >>
           ELSE /\ res = "sent" => BagCardinality(inflight) < MaxInFlight
                /\ IF res = "sent"
                   THEN /\ adjustInFlight' = TRUE
                        /\ inflight' = Send(inflight,
                               AdjustReq("RENAME", currentSessionId, id, Trim(currentName),
                                         0, {}))
                        /\ cards' = [cards EXCEPT ![id] = SavingCard(initialName)]
                   ELSE /\ UNCHANGED << adjustInFlight, inflight >>
                        /\ cards' = [cards EXCEPT ![id] = SettledCard(initialName)]
                /\ lastOp' = Op("rename", res, NoId, NoId, pre)
    /\ UNCHANGED << app, sessions, currentSessionId, currentSessionDetails,
                    clusters, isLoading, isFetchingSessions, isFetchingResults,
                    isDeletingId, error, selectedIds, splitTarget, numSplits >>

\* The checkbox of a card.
handleSelectionChange(id) ==
    /\ isAuthenticated
    /\ id \in DOMAIN cards
    /\ ~commonDisabled(id)
    /\ selectedIds' = Toggle(selectedIds, id)
    /\ lastOp' = UiStep
    /\ UNCHANGED << app, sessions, currentSessionId, currentSessionDetails,
                    clusters, isLoading, isFetchingSessions, isFetchingResults,
                    isDeletingId, error, cards, adjustInFlight, splitTarget, numSplits,
                    inflight >>

\* A merge validation that is off by one.
MergeValidOne(ids, cs) == Cardinality(ids \cap ClusterIdsOf(cs)) >= 1

\* A merge needs at least two ids present in the cluster collection.
MergeValid(ids, cs) == Cardinality(ids \cap ClusterIdsOf(cs)) >= 2

MergeOutcome(ids) ==
    IF ~AdjustPermitted THEN "precondition"
    ELSE IF ~MergeValid(ids, clusters) THEN "validation"
    ELSE IF OperationInProgress THEN "in_progress"
    ELSE "sent"

\* Merge of the selected clusters.
MergeSelected ==
    /\ isAuthenticated
    /\ Rendered
    /\ LET res == MergeOutcome(selectedIds)
       IN  /\ res = "sent" => BagCardinality(inflight) < MaxInFlight
           /\ IF res = "sent"
              THEN /\ adjustInFlight' = TRUE
                   /\ inflight' = Send(inflight,
                          AdjustReq("MERGE_CLUSTERS", currentSessionId, NoId, <<>>, 0,
                                    selectedIds))
              ELSE UNCHANGED << adjustInFlight, inflight >>
           /\ lastOp' = Op("merge", res, NoId, NoId,
                           Cardinality(selectedIds \cap ClusterIdsOf(clusters)) < 2)
    /\ UNCHANGED << app, sessions, currentSessionId, currentSessionDetails,
                    clusters, isLoading, isFetchingSessions, isFetchingResults,
                    isDeletingId, error, cards, selectedIds, splitTarget, numSplits >>

-----------------------------------------------------------------------------
(* SplitClusterModal *)

DigitValue(c) == (CHOOSE i \in DOMAIN Digits : Digits[i] = c) - 1

\* /^[0-9]+$/.test(s)
AllDigits(s) == s # <<>> /\ \A i \in DOMAIN s : IsDigit(s[i])

RECURSIVE DigitsPrefix(_)
DigitsPrefix(s) ==
    IF s # <<>> /\ IsDigit(Head(s)) THEN <<Head(s)>> \o DigitsPrefix(Tail(s)) ELSE <<>>

RECURSIVE DecimalValue(_)
DecimalValue(s) ==
    IF s = <<>> THEN 0
    ELSE DecimalValue(SubSeq(s, 1, Len(s) - 1)) * 10 + DigitValue(s[Len(s)])

\* parseInt(s, 10): leading blanks and a sign are skipped, the longest
\* prefix of digits is converted, and there is no number without a digit.
ParseInt(s) ==
    LET t == TrimLeft(s)
        signed == t # <<>> /\ Head(t) \in {"-", "+"}
        body == DigitsPrefix(IF signed THEN Tail(t) ELSE t)
    IN  IF body = <<>> THEN [nan |-> TRUE, val |-> 0]
        ELSE [nan |-> FALSE,
              val |-> IF signed /\ Head(t) = "-" THEN 0 - DecimalValue(body)
                      ELSE DecimalValue(body)]

\* isNaN(splits) || splits < 2
SplitsInvalid(splits) == splits.nan \/ splits.val < 2

\* The input text is looked at only while the modal is open, and opening
\* the modal resets it: a closed modal's text is kept at the reset value.
ModalText(target, text) == IF target = NoId THEN <<"2">> ELSE text

\* The modal's isLoading prop.
modalLoading == adjustInFlight

isConfirmDisabled ==
    modalLoading \/ numSplits = <<>> \/ SplitsInvalid(ParseInt(numSplits))

\* Texts typed into the number input.
NumSplitsInputs == { <<>>, <<"1">>, <<"2", ".", "5">> }

\* The split button of a card opens the modal for its cluster; the modal's
\* effect on [isOpen, clusterId] resets the input.
InitiateSplit(id) ==
    /\ isAuthenticated
    /\ id \in DOMAIN cards
    /\ ~(commonDisabled(id) \/ ClusterOf(clusters, id).size < 2)
    /\ splitTarget' = id
    /\ numSplits' = IF splitTarget = id THEN numSplits ELSE <<"2">>
    /\ lastOp' = UiStep
    /\ UNCHANGED << app, sessions, currentSessionId, currentSessionDetails,
                    clusters, isLoading, isFetchingSessions, isFetchingResults,
                    isDeletingId, error, cards, selectedIds, adjustInFlight, inflight >>

handleNumSplitsChange(val) ==
    /\ isAuthenticated
    /\ splitTarget # NoId
    /\ ~modalLoading
    /\ numSplits' = IF val = <<>> \/ AllDigits(val) THEN val ELSE numSplits
    /\ lastOp' = UiStep
    /\ UNCHANGED << app, sessions, currentSessionId, currentSessionDetails,
                    clusters, isLoading, isFetchingSessions, isFetchingResults,
                    isDeletingId, error, cards, selectedIds, adjustInFlight, splitTarget,
                    inflight >>

handleClose ==
    /\ isAuthenticated
    /\ splitTarget # NoId
    /\ ~modalLoading
    /\ splitTarget' = NoId
    /\ numSplits' = ModalText(NoId, numSplits)
    /\ lastOp' = UiStep
    /\ UNCHANGED << app, sessions, currentSessionId, currentSessionDetails,
                    clusters, isLoading, isFetchingSessions, isFetchingResults,
                    isDeletingId, error, cards, selectedIds, adjustInFlight, inflight >>

\* A split operation that trusts the card's button and the modal.
SplitOutcomeUnchecked(id, n) ==
    IF ~AdjustPermitted THEN "precondition"
    ELSE IF OperationInProgress THEN "in_progress"
    ELSE "sent"

\* The outcome of the split operation's synchronous part.
SplitOutcome(id, n) ==
    IF ~AdjustPermitted THEN "precondition"
    ELSE IF n < 2 \/ id \notin ClusterIdsOf(clusters) \/ ClusterOf(clusters, id).size < 2
         THEN "validation"
    ELSE IF OperationInProgress THEN "in_progress"
    ELSE "sent"

\* The modal closes when the split operation has returned.
CloseWhenSplit(r) == IF r.action = "SPLIT_CLUSTER" THEN NoId ELSE splitTarget

\* A press of the confirm button: nothing while the button is disabled,
\* else handleConfirm with the onConfirm call it makes.
handleConfirm ==
    /\ isAuthenticated
    /\ splitTarget # NoId
    /\ LET splits == ParseInt(numSplits)
           res == IF isConfirmDisabled THEN "disabled"
                  ELSE IF SplitsInvalid(splits) THEN "invalid"
                  ELSE SplitOutcome(splitTarget, splits.val)
       IN  /\ res = "sent" => BagCardinality(inflight) < MaxInFlight
           /\ IF res = "sent"
              THEN /\ adjustInFlight' = TRUE
                   /\ inflight' = Send(inflight,
                          AdjustReq("SPLIT_CLUSTER", currentSessionId, splitTarget, <<>>,
                                    splits.val, {}))
              ELSE UNCHANGED << adjustInFlight, inflight >>
           /\ splitTarget' = IF res \in {"precondition", "validation", "in_progress"}
                             THEN NoId ELSE splitTarget
           /\ numSplits' = ModalText(splitTarget', numSplits)
           /\ lastOp' = Op("split", res, NoId, splitTarget, FALSE)
    /\ UNCHANGED << app, sessions, currentSessionId, currentSessionDetails,
                    clusters, isLoading, isFetchingSessions, isFetchingResults,
                    isDeletingId, error, cards, selectedIds >>

-----------------------------------------------------------------------------
(* Adjustment coordinator: responses and reconciliation *)

\* A success that leaves the selection to the reconciliation.
SelectionKept(action, sel) == sel

\* The selection after a successful adjustment: a merge clears it.
SelectionAfter(action, sel) ==
    IF action = "MERGE_CLUSTERS" THEN ClearSelection ELSE sel

\* The continuation of an adjust request r. On success the session detail
\* is refetched and awaited with the marker still set; on failure the
\* marker is cleared and the refetch is issued all the same.
AdjustResponse(r, resp) ==
    LET h == HandleResponse(resp)
        ok == h.outcome # "throw"
    IN  /\ isAuthenticated
        /\ r \in Pending
        /\ r.kind = "adjust"
        /\ IF resp.status = 401
           THEN handleLogout(Op("adjust", "401", NoId, NoId, FALSE), Take(inflight, r))
           ELSE /\ inflight' = Send(Take(inflight, r), ReconcileReq(r, ok))
                /\ adjustInFlight' = ok
                /\ error' = IF ok THEN error ELSE h.message
                /\ selectedIds' = IF ok /\ r.sid = currentSessionId
                                  THEN SelectionAfter(r.action, selectedIds)
                                  ELSE selectedIds
                /\ splitTarget' = IF ok THEN splitTarget ELSE CloseWhenSplit(r)
                /\ numSplits' = ModalText(splitTarget', numSplits)
                /\ lastOp' = Op("adjust", IF ok THEN "ok" ELSE "failed", NoId, NoId, FALSE)
                /\ UNCHANGED << app, sessions, currentSessionId,
                                currentSessionDetails, clusters, isLoading,
                                isFetchingSessions, isFetchingResults, isDeletingId >>
                /\ IF ok THEN Render(cards) ELSE RenderSettled(r)

\* The continuation of a reconciliation fetch r. The response is applied
\* only if it is for the active session, and the selection is re-derived
\* against the fresh collection.
ReconcileResponse(r, resp) ==
    LET h == Settle(resp)
        apply == h.outcome = "data" /\ r.sid = currentSessionId
    IN  /\ isAuthenticated
        /\ r \in Pending
        /\ r.kind = "reconcile"
        /\ IF resp.status = 401
           THEN handleLogout(Op("reconcile", "401", NoId, NoId, FALSE), Take(inflight, r))
           ELSE \E d \in IF apply THEN DetailPayloads ELSE {NoPayload} :
                /\ IF apply
                   THEN /\ currentSessionDetails' =
                               [session_id |-> r.sid, status |-> d.status]
                        /\ clusters' = d.clusters
                   ELSE UNCHANGED << currentSessionDetails, clusters >>
                /\ selectedIds' = IF apply THEN Prune(selectedIds, clusters')
                                  ELSE selectedIds
                /\ error' = IF h.outcome = "data" THEN error ELSE h.message
                /\ adjustInFlight' = IF r.awaited THEN FALSE ELSE adjustInFlight
                /\ splitTarget' = IF r.awaited THEN CloseWhenSplit(r) ELSE splitTarget
                /\ numSplits' = ModalText(splitTarget', numSplits)
                /\ inflight' = Take(inflight, r)
                /\ lastOp' = OpOf(IF r.awaited THEN "reconcile" ELSE "refetch",
                                  IF apply THEN "applied"
                                  ELSE IF h.outcome = "data" THEN "discarded" ELSE "failed",
                                  apply /\ ~(selectedIds \subseteq ClusterIdsOf(clusters')),
                                  IF r.awaited THEN r.action ELSE "",
                                  d.clusters)
                /\ UNCHANGED << app, sessions, currentSessionId, isLoading,
                                isFetchingSessions, isFetchingResults, isDeletingId >>
                /\ IF r.awaited THEN RenderSettled(r) ELSE Render(cards)

-----------------------------------------------------------------------------
(* Next-state relations *)

\* Session list, session detail and the start and delete buttons.
BrowseNext ==
    \/ \E resp \in HttpResponses : SessionsResponse(resp)
    \/ \E s \in SessionIds : SelectSession(s)
    \/ \E r \in Pending, resp \in HttpResponses : ResultsResponse(r, resp)
    \/ StartClustering
    \/ \E id \in ClusterIdsOf(clusters) : DeleteClusterAndRecluster(id)

\* The responses that bring a new session.
JobsNext ==
    \/ \E resp \in HttpResponses : StartResponse(resp)
    \/ \E r \in Pending, resp \in HttpResponses : DeleteResponse(r, resp)

\* The dashboard proper: session list, session detail, start, delete.
DashboardNext == BrowseNext \/ JobsNext

\* Only the first MaxAdjustSessions session ids are issued.
FewSessions == \A s \in SessionIds : s > MaxAdjustSessions => sessions'[s] = Absent

\* The responses that bring a new session, in the scenarios with adjustments.
FewJobsNext ==
    \/ \E resp \in HttpResponses : StartResponse(resp) /\ FewSessions
    \/ \E r \in Pending, resp \in HttpResponses : DeleteResponse(r, resp) /\ FewSessions

\* The responses to the coordinator's requests.
CoordinatorNext ==
    \/ \E r \in Pending, resp \in HttpResponses : AdjustResponse(r, resp)
    \/ \E r \in Pending, resp \in HttpResponses : ReconcileResponse(r, resp)

\* Selection and merge.
SelectionNext ==
    \/ \E id \in DOMAIN cards : handleSelectionChange(id)
    \/ MergeSelected

\* The rename controls of the cards.
RenameNext ==
    \/ \E id \in DOMAIN cards : handleRenameClick(id)
    \/ \E id \in DOMAIN cards, text \in NameInputs : handleNameChange(id, text)
    \/ \E id \in DOMAIN cards : handleCancelClick(id)
    \/ \E id \in DOMAIN cards : handleSaveClick(id)

\* The split button of the cards and the split modal.
SplitNext ==
    \/ \E id \in DOMAIN cards : InitiateSplit(id)
    \/ \E val \in NumSplitsInputs : handleNumSplitsChange(val)
    \/ handleClose
    \/ handleConfirm

\* App: authentication.
AppNext ==
    \/ RestoreToken
    \/ NoStoredToken
    \/ \E resp \in HttpResponses, hasUser \in BOOLEAN : MeResponse(resp, hasUser)
    \/ handleLogin
    \/ LoginRejected
    \/ LogoutClick
    \/ \E resp \in HttpResponses : OrphanResponse(resp)

Next == DashboardNext \/ CoordinatorNext \/ SelectionNext \/ RenameNext \/ SplitNext

\* The whole client.
Spec == Init /\ [][Next]_vars

\* The dashboard without the adjustment controls.
SpecDashboard == Init /\ [][DashboardNext]_vars

\* The continuations of the dashboard's awaits: every request it has sent is
\* answered in the end.
ServerAnswers ==
    \/ \E resp \in HttpResponses : SessionsResponse(resp)
    \/ \E r \in Pending, resp \in HttpResponses : ResultsResponse(r, resp)
    \/ \E resp \in HttpResponses : StartResponse(resp)
    \/ \E r \in Pending, resp \in HttpResponses : DeleteResponse(r, resp)

\* The dashboard with a server that answers every request, and a user who
\* may stop acting at any time.
SpecDashboardLive == Init /\ [][DashboardNext]_vars /\ WF_vars(ServerAnswers)

\* The start form and the job it starts.
FormNext ==
    \/ SubmitStartForm
    \/ handleSubmit
    \/ \E resp \in HttpResponses : StartResponse(resp)

SpecStartForm == InitForm /\ [][FormNext]_vars

\* The application from page load on: authentication and the dashboard.
SpecAuth == InitApp /\ [][AppNext \/ DashboardNext]_vars

\* The effects of a render always run, and the validation requests are taken
\* to settle.
SpecAuthLive ==
    /\ InitApp
    /\ [][AppNext \/ DashboardNext]_vars
    /\ WF_vars(RestoreToken)
    /\ WF_vars(NoStoredToken)
    /\ WF_vars(\E resp \in HttpResponses, hasUser \in BOOLEAN : MeResponse(resp, hasUser))

\* The API client on its own.
SpecGateway == InitGateway /\ [][GatewayReturns]_vars

\* A user who selects, merges and splits.
SpecAdjust ==
    Init /\ [][BrowseNext \/ FewJobsNext \/ CoordinatorNext \/ SelectionNext \/ SplitNext]_vars

\* A user who renames and splits.
SpecCards ==
    Init /\ [][BrowseNext \/ FewJobsNext \/ CoordinatorNext \/ RenameNext \/ SplitNext]_vars

-----------------------------------------------------------------------------
(* Properties *)

TerminalStatuses == {"SUCCESS", "FAILURE", "RECLUSTERED", "RECLUSTERING_FAILED"}

\* The adjustment requests (rename, merge, split, delete) outstanding for
\* the active session.
AdjustmentsOutstanding ==
    { r \in Pending : r.kind \in {"adjust", "delete"} /\ r.sid = currentSessionId }

\* C1: in every reachable state at most one adjustment request (rename,
\* merge, split or delete) is outstanding for the active session; in
\* particular no two deletes are outstanding together.
C1_SingleAdjustmentOutstanding ==
    /\ Cardinality(AdjustmentsOutstanding) <= 1
    /\ \A r \in AdjustmentsOutstanding : CopiesIn(r, inflight) = 1

SplitOutstanding ==
    \E r \in Pending :
        r.kind = "adjust" /\ r.action = "SPLIT_CLUSTER" /\ r.sid = currentSessionId

RenameOutstanding ==
    \E r \in Pending :
        r.kind = "adjust" /\ r.action = "RENAME" /\ r.sid = currentSessionId

\* C2: while a split request is outstanding for the session, a rename
\* invoked on that session (also from a card that was in edit mode before the
\* split started) is rejected as "operation in progress", and no rename
\* request is outstanding next to the split.
C2_RenameRejectedDuringSplit ==
    SplitOutstanding =>
        /\ ~RenameOutstanding
        /\ (lastOp.op = "rename" /\ lastOp.res # "unchanged") => lastOp.res = "in_progress"

\* C2 witness: a card in edit mode has invoked rename while the split was
\* outstanding, and was rejected.
C2_Witness ==
    SplitOutstanding /\ lastOp.op = "rename" /\ lastOp.res = "in_progress"

\* C3: polling is active while the last fetched status of the active session
\* is non-terminal: as long as that status is not terminal, the next detail
\* fetch for the session is outstanding.
C3_PollingWhileNonTerminal ==
    ( /\ currentSessionId # NoId
      /\ currentSessionDetails # NoDetails
      /\ currentSessionDetails.session_id = currentSessionId
      /\ currentSessionDetails.status \notin TerminalStatuses )
        => \E r \in Pending : r.kind = "results" /\ r.sid = currentSessionId

\* C5: immediately after any change of the active session the selection set
\* is empty, whatever it contained before.
C5_SelectionEmptyAfterSessionChange ==
    [][currentSessionId' # currentSessionId => selectedIds' = {}]_vars

\* C5 witness: the user has selected another session while clusters were
\* selected, and the selection is empty.
C5_Witness ==
    /\ lastOp.op = "selectSession"
    /\ lastOp.pre
    /\ currentSessionId # NoId
    /\ selectedIds = {}

\* C6: a merge invoked with fewer than two ids present in the cluster
\* collection is rejected with a validation failure, sends no request and
\* leaves the session, the cluster collection and the selection unchanged.
C6_MergeNeedsTwoPresentIds ==
    [][(lastOp'.op = "merge" /\ lastOp'.pre) =>
          /\ lastOp'.res = "validation"
          /\ UNCHANGED << inflight, sessions, currentSessionId, currentSessionDetails,
                          clusters, selectedIds, adjustInFlight >>]_vars

\* C6 witness: a merge of a single selected cluster has been rejected.
C6_Witness ==
    /\ lastOp.op = "merge"
    /\ lastOp.pre
    /\ lastOp.res = "validation"
    /\ Cardinality(selectedIds) = 1

\* The input text denotes an integer that is at least 2.
DenotesSplitCount(text) == AllDigits(text) /\ DecimalValue(text) >= 2

\* C7: a split request is sent only when, at the moment of confirmation,
\* numSplits is an integer >= 2 and the target cluster's current size is
\* >= 2; in every other case the split is rejected and nothing is sent.
C7_SplitSentOnlyWhenValid ==
    /\ (lastOp.op = "split" /\ lastOp.res = "sent") =>
          /\ DenotesSplitCount(numSplits)
          /\ \E c \in clusters : c.id = lastOp.cid /\ c.size >= 2
    /\ \A r \in Pending : (r.kind = "adjust" /\ r.action = "SPLIT_CLUSTER") => r.n >= 2

\* C7 witness: the confirmation of a split was rejected because the target
\* cluster is no longer of size >= 2.
C7_Witness ==
    /\ lastOp.op = "split"
    /\ lastOp.res = "validation"
    /\ \E c \in clusters : c.id = lastOp.cid /\ c.size < 2

\* C8: a rename whose trimmed new name equals the cluster's current name
\* (null counting as the empty name) sends no request and succeeds.
C8_UnchangedRenameSendsNothing ==
    (lastOp.op = "rename" /\ lastOp.pre) => lastOp.res \in {"unchanged", "noop"}

\* C9: when the detail fetch for session S is answered 404 or 401, S is
\* removed from the session list and the active session id is null.
C9_EvictedOnNotFoundOrUnauthorized ==
    (lastOp.op = "fetchResults" /\ lastOp.res \in {"404", "401"}) =>
        /\ sessions[lastOp.sid] = Absent
        /\ currentSessionId = NoId

C11_MergeSendsOneRequestAndReconciles ==
    /\ (lastOp.op = "merge" /\ lastOp.res = "sent") =>
          \E r \in Pending :
              /\ r.kind = "adjust"
              /\ r.action = "MERGE_CLUSTERS"
              /\ r.sid = currentSessionId
              /\ r.ids = selectedIds
              /\ Cardinality(r.ids) >= 2
              /\ CopiesIn(r, inflight) = 1
              /\ \A q \in Pending : q.kind = "adjust" => q = r
    /\ (lastOp.op = "reconcile" /\ lastOp.res = "applied"
            /\ lastOp.act = "MERGE_CLUSTERS") =>
          /\ selectedIds = {}
          /\ ~adjustInFlight
          /\ clusters = lastOp.got

\* C11 witness: the merge of clusters 1 and 2 has been reconciled: the
\* collection holds neither of them but a cluster with a new id.
C11_Witness ==
    /\ lastOp.op = "reconcile"
    /\ lastOp.res = "applied"
    /\ lastOp.act = "MERGE_CLUSTERS"
    /\ selectedIds = {}
    /\ clusters = CollectionC

\* The status of session s as the client holds it: that of the fetched detail
\* when the detail is the one of s, else that of its entry in the list.
HeldStatus(s) ==
    IF currentSessionDetails # NoDetails /\ currentSessionDetails.session_id = s
    THEN currentSessionDetails.status
    ELSE sessions[s]

\* The transition graph of the status.
StatusEdges ==
    { <<"STARTED", "PROCESSING">>, <<"PROCESSING", "SUCCESS">>,
      <<"PROCESSING", "FAILURE">>, <<"SUCCESS", "RECLUSTERED">>,
      <<"SUCCESS", "RECLUSTERING_FAILED">>, <<"RECLUSTERED", "RECLUSTERED">>,
      <<"RECLUSTERED", "RECLUSTERING_FAILED">> }

StatusSuccessors(S) == { e[2] : e \in { e \in StatusEdges : e[1] \in S } }

RECURSIVE ReachableStatuses(_)
ReachableStatuses(S) ==
    IF StatusSuccessors(S) \subseteq S THEN S
    ELSE ReachableStatuses(S \cup StatusSuccessors(S))

\* Status b lies ahead of status a in the transition graph.
Forward(a, b) == b \in ReachableStatuses(StatusSuccessors({a}))

\* C12: whenever the status the client holds for a session changes, the new
\* status lies ahead of the old one in the transition graph STARTED ->
\* PROCESSING -> {SUCCESS, FAILURE}, SUCCESS/RECLUSTERED -> {RECLUSTERED,
\* RECLUSTERING_FAILED}; it never goes back to an earlier status.
C12_StatusOnlyMovesForward ==
    [][\A s \in SessionIds :
          ( /\ HeldStatus(s) # Absent
            /\ HeldStatus(s)' # Absent
            /\ HeldStatus(s)' # HeldStatus(s) )
              => Forward(HeldStatus(s), HeldStatus(s)')]_vars

\* The request of an adjust operation, or the reconciliation fetch that the
\* operation still waits for.
OfOperation(r) == r.kind = "adjust" \/ (r.kind = "reconcile" /\ r.awaited)

\* C13: no in-flight marker stays set once its operation has returned: the
\* shared marker of rename, merge and split, the markers isDeletingId and
\* isLoading of delete, and isSavingName of a card are set only while a
\* request of their operation is outstanding.
C13_MarkersClearedOnReturn ==
    /\ adjustInFlight => \E r \in Pending : OfOperation(r)
    /\ isDeletingId # NoId =>
          \E r \in Pending : r.kind = "delete" /\ r.cid = isDeletingId
    /\ isLoading => \E r \in Pending : r.kind \in {"delete", "start"}
    /\ \A id \in DOMAIN cards :
          cards[id].isSavingName =>
              \E r \in Pending : OfOperation(r) /\ r.action = "RENAME" /\ r.cid = id

\* C13 witness: a rename has failed; the shared marker and the saving state
\* of every card are cleared, and its card is shown.
C13_Witness ==
    /\ lastOp.op = "adjust"
    /\ lastOp.res = "failed"
    /\ ~adjustInFlight
    /\ \E r \in Pending :
          /\ r.kind = "reconcile" /\ r.action = "RENAME" /\ ~r.awaited
          /\ r.cid \in DOMAIN cards
          /\ ~cards[r.cid].isSavingName

\* C14: when an adjustment request (rename, merge, split or delete) has
\* failed, its in-flight marker is cleared and a fetch of the session detail
\* is outstanding.
C14_FailedAdjustmentStillReconciles ==
    /\ (lastOp.op = "adjust" /\ lastOp.res = "failed") =>
          /\ ~adjustInFlight
          /\ \E r \in Pending : r.kind = "reconcile"
    /\ (lastOp.op = "deleteCluster" /\ lastOp.res = "throw") =>
          /\ isDeletingId = NoId
          /\ \E r \in Pending : r.kind \in {"results", "reconcile"}

\* C16: the response of a session-detail fetch is applied only if the session
\* it was issued for is the active session when it arrives, so the detail
\* held always belongs to the active session.
C16_DetailBelongsToActiveSession ==
    /\ currentSessionDetails # NoDetails =>
          currentSessionDetails.session_id = currentSessionId
    /\ (lastOp.op = "fetchResults" /\ lastOp.res = "data") =>
          lastOp.sid = currentSessionId

\* The client holds the detail of the active session, and its status is
\* result-bearing.
ActiveSessionResultBearing ==
    /\ currentSessionId # NoId
    /\ currentSessionDetails # NoDetails
    /\ currentSessionDetails.session_id = currentSessionId
    /\ currentSessionDetails.status \in ResultStatuses

AdjustmentOps == {"rename", "merge", "split", "deleteCluster"}

\* C17: an adjustment (rename, merge, split, delete) sends its request only
\* when the active session's status is SUCCESS or RECLUSTERED; invoked
\* otherwise it fails its precondition, sends nothing and changes no state.
C17_AdjustOnlyOnResultBearingSession ==
    [][/\ (lastOp'.op \in AdjustmentOps /\ lastOp'.res = "sent") =>
              ActiveSessionResultBearing
       /\ (lastOp'.op \in AdjustmentOps /\ lastOp'.res = "precondition") =>
              UNCHANGED << inflight, sessions, currentSessionId, currentSessionDetails,
                           clusters, selectedIds, adjustInFlight, isDeletingId,
                           isLoading >>]_vars

\* The texts of an HTTP error that only name the status.
GenericTexts == {"HTTP_STATUS", "HTTP_NOT_JSON", "HTTP_ERROR_STATUS", "EXPORT_FAILED_STATUS"}

\* The texts of the error and message fields that the body carries.
BodyTexts(resp) == IF resp.json THEN {resp.error, resp.message} \ {""} ELSE {}

\* C18: for every API function (detail, list, start, adjust, delete and the
\* three exports) a 204 response is a success, without a payload; a response
\* that is not 2xx is a failure whose text is the body's error or message
\* field when the body carries one, and a text naming the status otherwise.
C18_GatewayFailureCarriesBodyText ==
    (lastOp.op = "call" /\ lastOp.outcome # "pending") =>
        /\ lastOp.resp.status = 204 => lastOp.outcome \in {"null", "download"}
        /\ ~Ok(lastOp.resp) =>
              /\ lastOp.outcome = "throw"
              /\ IF BodyTexts(lastOp.resp) # {}
                 THEN lastOp.message \in BodyTexts(lastOp.resp)
                 ELSE lastOp.message \in GenericTexts

\* C19: a response whose body does not parse is a success with a null
\* payload when its status is successful, and an error naming the status
\* otherwise; it is never a success that carries a payload.
C19_UnparseableBodyYieldsNullOrError ==
    (lastOp.op = "call" /\ lastOp.outcome # "pending" /\ ~lastOp.resp.json) =>
        /\ lastOp.outcome # "data"
        /\ ~Ok(lastOp.resp) =>
              lastOp.outcome = "throw" /\ lastOp.message \in GenericTexts
        /\ (Ok(lastOp.resp) /\ lastOp.kind \in JsonOps) => lastOp.outcome = "null"

\* C19 witness: the detail fetch has been answered 200 with a body that does
\* not parse, and has returned null.
C19_Witness ==
    /\ lastOp.op = "call"
    /\ lastOp.kind = "detail"
    /\ lastOp.resp.status = 200
    /\ ~lastOp.resp.json
    /\ lastOp.outcome = "null"

MutationSucceeded ==
    \/ lastOp'.op = "deleteCluster" /\ lastOp'.res = "data"
    \/ lastOp'.op = "adjust" /\ lastOp'.res = "ok"

\* C21: the step that receives the success response of an adjustment derives
\* nothing from it: the session list keeps its entries and their statuses,
\* and the session detail and the cluster collection are left as they are or
\* emptied for the fresh detail fetch that replaces them.
C21_NothingDerivedFromMutationResponse ==
    [][MutationSucceeded =>
          /\ sessions' = sessions
          /\ currentSessionDetails' \in {currentSessionDetails, NoDetails}
          /\ clusters' \in {clusters, {}}]_vars

\* The status last fetched for the active session is not terminal.
ActiveStatusNonTerminal ==
    /\ currentSessionId # NoId
    /\ currentSessionDetails # NoDetails
    /\ currentSessionDetails.session_id = currentSessionId
    /\ currentSessionDetails.status \notin TerminalStatuses

\* C22: a non-terminal status fetched for the active session does not stay:
\* with a server that answers every request and without any action of the
\* user, the status shown for the active session is replaced in the end.
C22_NonTerminalStatusIsRefreshed == ActiveStatusNonTerminal ~> ~ActiveStatusNonTerminal

\* The text denotes a number that the parameter p admits: an integer > 0
\* for n_clusters and min_samples, a number > 0 for eps.
ParamValid(p, text) ==
    /\ text \notin {Null, <<>>}
    /\ ~NumberOf(text).nan
    /\ NumberOf(text).positive
    /\ p \in IntegerParams => NumberOf(text).integer

FormValid(f) ==
    /\ f.file
    /\ f.algorithm \in {"kmeans", "dbscan"}
    /\ \A p \in RequiredParams(f.algorithm) : ParamValid(p, f[p])

\* C23: a click on the start button sends the start request (or hands the
\* payload to onStartClustering) only for a form with a file, an algorithm
\* and valid values of all parameters the algorithm requires; for any other
\* form no request is sent, and the session list and the active session
\* are left as they are.
C23_StartSentOnlyForValidForm ==
    [][(lastOp.op = "form" /\ lastOp.res = "pending" /\ lastOp'.op = "form"
            /\ ~FormValid(lastOp.form)) =>
          /\ lastOp'.res \in {"pending", "rejected"}
          /\ inflight' = inflight
          /\ sessions' = sessions
          /\ currentSessionId' = currentSessionId]_vars

\* C23 witness: the dashboard has rejected a DBSCAN form whose min_samples
\* is a fraction, and no request is in flight.
C23_Witness ==
    /\ lastOp.op = "form"
    /\ lastOp.component = "dashboard"
    /\ lastOp.res = "rejected"
    /\ lastOp.form.algorithm = "dbscan"
    /\ lastOp.form.eps = <<"2", ".", "5">>
    /\ lastOp.form.min_samples = <<"2", ".", "5">>
    /\ inflight = EmptyBag
    /\ ~isLoading

\* C24: the step that receives a successful start response puts a session
\* with the returned id and status STARTED into the list and makes it the
\* active session, with the detail fetch of that session only just sent;
\* the step that receives a failed start response leaves the list and the
\* active session id as they are. (A 401 logs the user out and unmounts the
\* dashboard, see C20.)
C24_StartedSessionRegisteredAtOnce ==
    [][(lastOp'.op = "startClustering" /\ lastOp'.res \notin {"sent", "401"}) =>
          IF lastOp'.res = "data"
          THEN \E s \in SessionIds :
                  /\ sessions[s] = Absent
                  /\ sessions' = [sessions EXCEPT ![s] = "STARTED"]
                  /\ currentSessionId' = s
                  /\ currentSessionDetails' = NoDetails
                  /\ Req("results", s, NoId) \in BagToSet(inflight')
          ELSE /\ sessions' = sessions
               /\ currentSessionId' = currentSessionId]_vars

\* C24 witness: a start has succeeded, the new session is listed as STARTED
\* and is active, and its detail fetch has not returned.
C24_Witness ==
    /\ lastOp.op = "startClustering"
    /\ lastOp.res = "data"
    /\ currentSessionId # NoId
    /\ sessions[currentSessionId] = "STARTED"
    /\ currentSessionDetails = NoDetails
    /\ Req("results", currentSessionId, NoId) \in Pending

\* C25: whenever a delete request is outstanding, the busy indicator is set:
\* isDeletingId is not null and isLoading is true.
C25_BusyWhileDeleteOutstanding ==
    (\E r \in Pending : r.kind = "delete") => (isDeletingId # NoId /\ isLoading)

\* A start, a session-list fetch, a detail fetch or a delete is in progress:
\* its request awaits the response.
DashboardOperationInProgress ==
    \E r \in Pending : r.kind \in {"start", "sessions", "results", "delete"}

\* C26: the active session id changes only in a step that receives the
\* success response of a start or a delete, or in a click on a session of
\* the list made while no operation of the dashboard is in progress. (A
\* logout unmounts the dashboard.)
C26_ActiveSessionChangesOnlyWhenIdle ==
    [][currentSessionId' # currentSessionId =>
          \/ ~isAuthenticated'
          \/ lastOp'.op \in {"startClustering", "deleteCluster"} /\ lastOp'.res = "data"
          \/ lastOp'.op = "selectSession" /\ ~DashboardOperationInProgress]_vars

\* C27: a delete that fails changes nothing but the error text and the busy
\* flags: neither the step that sends the request nor the step that
\* receives the failure changes the session list, the active session id,
\* the session detail or the cluster collection. (A 401 logs the user out
\* and unmounts the dashboard, see C20.)
C27_FailedDeleteChangesOnlyErrorAndFlags ==
    [][(lastOp'.op = "deleteCluster" /\ lastOp'.res \notin {"data", "401"}) =>
          /\ sessions' = sessions
          /\ currentSessionId' = currentSessionId
          /\ currentSessionDetails' = currentSessionDetails
          /\ clusters' = clusters]_vars

\* C27 witness: a delete has failed; the clusters of the session are still
\* displayed, the error is set and the flags are cleared.
C27_Witness ==
    /\ lastOp.op = "deleteCluster"
    /\ lastOp.res = "throw"
    /\ error # NoError
    /\ currentSessionId # NoId
    /\ currentSessionDetails.session_id = currentSessionId
    /\ clusters # {}
    /\ isDeletingId = NoId
    /\ ~isLoading

\* The card of cluster id is out of edit mode and its edit buffer is the
\* name the cluster has in the collection cs.
CardShowsName(card, cs, id) ==
    /\ ~card.isEditing
    /\ ~card.isSavingName
    /\ card.currentName = OrEmpty(ClusterOf(cs, id).name)

\* C28: when the rename attempt of a card settles (its isSavingName goes
\* back to false, or its save returns without a request), the card is out of
\* edit mode and its edit buffer is the cluster's current name, the empty
\* text for a null name; and no save acts on a card whose attempt is
\* outstanding.
C28_CardSettlesToServerName ==
    [][\A id \in DOMAIN cards \cap DOMAIN cards' :
          /\ (cards[id].isSavingName /\ ~cards'[id].isSavingName) =>
                CardShowsName(cards'[id], clusters', id)
          /\ (lastOp'.op = "rename" /\ lastOp'.res # "sent" /\ cards'[id] # cards[id]) =>
                CardShowsName(cards'[id], clusters', id)
          /\ (lastOp'.op = "rename" /\ cards[id].isSavingName) =>
                cards'[id] = cards[id]]_vars

\* C28 witness: a rename has been sent and its awaited refetch has been
\* applied; the cards are out of edit mode and show the names of the fresh
\* collection.
C28_Witness ==
    /\ lastOp.op = "reconcile"
    /\ lastOp.act = "RENAME"
    /\ lastOp.res = "applied"
    /\ cards # NoCards
    /\ \A id \in DOMAIN cards : CardShowsName(cards[id], clusters, id)

\* C29: between handlers, with every effect of the last render run, an
\* authenticated App holds a token and a user, whatever the order of logins,
\* logouts, validation answers and 401 answers has been.
C29_AuthenticatedHasTokenAndUser ==
    isAuthenticated => authToken # NoToken /\ currentUser # NoUser

\* C29 witness: the validation of a stored token has been answered with a
\* user and has authenticated App.
C29_Witness ==
    /\ lastOp.op = "me"
    /\ lastOp.res = "user"
    /\ ~lastOp.pre
    /\ isAuthenticated
    /\ authToken # NoToken
    /\ currentUser # NoUser

\* C30: with the validation requests settling, authLoading always becomes
\* false again, with a stored token or without one and whatever the
\* validation answers.
C30_AuthLoadingEnds == authLoading ~> ~authLoading

\* C30 witness: a validation request has settled and authLoading is false.
C30_Witness ==
    /\ lastOp.op = "me"
    /\ ~authLoading

====
